---- MODULE Spec2Model ----
(***************************************************************************)
(* CrawlFlow: the per-site pipeline crawl -> extract -> transform, the     *)
(* fan-in aggregation, and the Airflow DAG that schedules them.            *)
(*                                                                         *)
(* Strings that the code takes apart (URLs, hrefs, page text) are          *)
(* sequences of tokens; a file is a sequence of length 0 (absent) or 1     *)
(* (present, holding its content); an HTML body is <<>> (the empty string) *)
(* or <<dom>> where dom records what BeautifulSoup finds in it.            *)
(***************************************************************************)
EXTENDS Integers, Sequences, FiniteSets, TLC

(* ------------------------------ bounds -------------------------------- *)
\* number of scheduled DAG runs explored
MaxRuns == 2
\* number of file-system locations that are broken at the same time
MaxFaults == 1
\* length of the site list handed to the aggregator run on its own
MaxSites == 3
\* length of the texts handed to clean_text on its own
MaxTextLen == 5
\* number of links of the homepages handed to the link classification
MaxLinks == 4
\* number of worker processes that run crawl tasks at the same time
MaxWorkers == 2
\* number of rate-limit periods that pass
MaxPeriods == 1

(* ------------------------- program constants -------------------------- *)
MAX_CASE_STUDY_PAGES == 3
MAX_INTERNAL_PAGES == 4
\* default_args["retries"]
Retries == 2
\* .get("status", 500) in transform_to_standard
DefaultHomepageStatus == 500
\* len(text) < 300 in extract_section_from_html
MinHomepageLen == 300
\* @limits(calls=60, period=60)
RATE_CALLS == 60
RATE_PERIOD == 60

(* ------------------------------ helpers ------------------------------- *)
NoFile == <<>>
File(v) == <<v>>
IsFile(f) == f # <<>>

Range(s) == {s[i] : i \in 1..Len(s)}

RECURSIVE SumSeq(_)
SumSeq(s) == IF s = <<>> THEN 0 ELSE s[1] + SumSeq(Tail(s))

\* index of the first position of s holding a token of set T, Len(s)+1 when none
RECURSIVE FirstIn(_, _, _)
FirstIn(s, T, i) ==
    IF i > Len(s) THEN Len(s) + 1
    ELSE IF s[i] \in T THEN i ELSE FirstIn(s, T, i + 1)

\* index of the last position of s holding token t, 0 when none
RECURSIVE LastOf(_, _, _)
LastOf(s, t, i) ==
    IF i < 1 THEN 0
    ELSE IF s[i] = t THEN i ELSE LastOf(s, t, i - 1)

StartsWith(s, p) == Len(p) <= Len(s) /\ SubSeq(s, 1, Len(p)) = p

(* -------------------------------- URLs -------------------------------- *)
Schemes == {"http:", "https:"}

\* urlparse(url).netloc
Netloc(url) ==
    LET rest == IF Len(url) >= 1 /\ url[1] \in Schemes THEN Tail(url) ELSE url
    IN  IF Len(rest) >= 1 /\ rest[1] = "//"
        THEN SubSeq(rest, 2, FirstIn(rest, {"/", "?", "#"}, 2) - 1)
        ELSE <<>>

\* urlparse(url).path
UrlPath(url) ==
    LET rest == IF Len(url) >= 1 /\ url[1] \in Schemes THEN Tail(url) ELSE url
        from == IF Len(rest) >= 1 /\ rest[1] = "//"
                THEN FirstIn(rest, {"/", "?", "#"}, 2) ELSE 1
    IN  SubSeq(rest, from, FirstIn(rest, {"?", "#"}, from) - 1)

\* the key taken from the path alone, whatever the network location
get_domain_path_only(url) ==
    SubSeq(UrlPath(url), 1, FirstIn(UrlPath(url), {"/"}, 1) - 1)

\* utils.get_domain: parsed.netloc or parsed.path.split('/')[0]
get_domain(url) ==
    IF Netloc(url) # <<>> THEN Netloc(url)
    ELSE SubSeq(UrlPath(url), 1, FirstIn(UrlPath(url), {"/"}, 1) - 1)

\* config/websites.yaml as load_websites returns it
UrlA == <<"https:", "//", "a.com">>
UrlB == <<"https:", "//", "b.com">>
websites == <<UrlA, UrlB>>
Sites == 1..Len(websites)
Domains == {get_domain(websites[i]) : i \in Sites}

(* ------------------------------- text --------------------------------- *)
\* the characters \s matches, and U+200B, U+200C, U+200D, U+FEFF
Whitespace == {" ", "\n", "\t"}
ZeroWidth == {"u200b", "u200c", "u200d", "ufeff"}

\* str.strip()
RECURSIVE LStrip(_)
LStrip(t) == IF t # <<>> /\ t[1] \in Whitespace THEN LStrip(Tail(t)) ELSE t

RECURSIVE RStrip(_)
RStrip(t) ==
    IF t # <<>> /\ t[Len(t)] \in Whitespace THEN RStrip(SubSeq(t, 1, Len(t) - 1)) ELSE t

Strip(t) == RStrip(LStrip(t))

\* re.sub(r'\s+', ' ', t)
RECURSIVE CollapseWs(_)
CollapseWs(t) ==
    IF t = <<>> THEN <<>>
    ELSE IF t[1] \in Whitespace THEN <<" ">> \o CollapseWs(LStrip(t))
    ELSE <<t[1]>> \o CollapseWs(Tail(t))

\* re.sub of the four zero-width characters by ''
RemoveZw(t) == SelectSeq(t, LAMBDA c : c \notin ZeroWidth)

clean_text(text) ==
    IF text = <<>> THEN <<>> ELSE RemoveZw(CollapseWs(Strip(text)))

\* " ".join(parts)
RECURSIVE JoinSp(_)
JoinSp(parts) ==
    IF parts = <<>> THEN <<>>
    ELSE IF Len(parts) = 1 THEN parts[1]
    ELSE parts[1] \o <<" ">> \o JoinSp(Tail(parts))

(* ------------------------------- HTML --------------------------------- *)
\* An HTML body is <<>> (the empty string) or <<dom>>.  dom records what
\* BeautifulSoup finds once script/style/noscript/iframe/form and comments are
\* removed; every *text* is what get_text(separator=" ", strip=True) returns
\* for the element, an absent element is NoFile (<<>>), a present one <<text>>:
\*   links     hrefs of the <a href> tags in document order
\*   main      <main>
\*   body      <body> once nav/header/footer are decomposed
\*   blocks    body elements whose class matches content|main|article
\*   nav       <nav>;    navPat[k]  element whose class/id matches NAVBAR_PATTERNS[k]
\*   footer    <footer>; footerPat  element whose class/id matches FOOTER_PATTERNS[1]
\*   csMain    main or article or body, nav/header/footer/aside/form decomposed
\*   all       soup.get_text of the whole document
\*   size      len(html)
EmptyHtml == <<>>

HrefCase1 == <<"/", "case-studies", "/", "acme">>
HrefCase2 == <<"/", "stories">>
HrefBlog == <<"/", "blog">>
HrefAnchor == <<"#", "top">>

DomRich ==
    [links |-> <<HrefCase1, HrefBlog, HrefCase2, HrefAnchor, HrefCase1>>,
     main |-> << <<"m", " ", "x">> >>, body |-> << <<"b">> >>, blocks |-> <<>>,
     nav |-> << <<"n">> >>, navPat |-> << <<>>, <<>> >>,
     footer |-> << <<"f">> >>, footerPat |-> <<>>,
     csMain |-> << <<"m", " ", "x">> >>, all |-> <<"m", " ", "x">>, size |-> 9]

DomBare ==
    [links |-> <<HrefAnchor>>,
     main |-> <<>>, body |-> << <<>> >>, blocks |-> <<>>,
     nav |-> <<>>, navPat |-> << <<>>, <<>> >>,
     footer |-> <<>>, footerPat |-> <<>>,
     csMain |-> << <<>> >>, all |-> <<>>, size |-> 5]

DomPlain ==
    [links |-> <<HrefBlog>>,
     main |-> <<>>, body |-> << <<"b", "\n", "y">> >>, blocks |-> <<>>,
     nav |-> <<>>, navPat |-> << <<>>, <<>> >>,
     footer |-> <<>>, footerPat |-> <<>>,
     csMain |-> << <<"b", "\n", "y">> >>, all |-> <<"b", "\n", "y">>, size |-> 7]

DomCase ==
    [links |-> <<>>,
     main |-> <<>>, body |-> << <<"c", "s">> >>, blocks |-> <<>>,
     nav |-> <<>>, navPat |-> << <<>>, <<>> >>,
     footer |-> <<>>, footerPat |-> <<>>,
     csMain |-> << <<"c", "s">> >>, all |-> <<"c", "s">>, size |-> 4]

\* the first maximum of max(candidates, key=lambda x: len(x.get_text(strip=True)))
Biggest(blocks) ==
    LET i == CHOOSE i \in 1..Len(blocks) :
                 /\ \A j \in 1..Len(blocks) : blocks[j].bare <= blocks[i].bare
                 /\ \A j \in 1..(i - 1) : blocks[j].bare < blocks[i].bare
    IN  blocks[i].text

SectionHomepage(dom) ==
    LET t1 == IF IsFile(dom.main) THEN dom.main[1]
              ELSE IF IsFile(dom.body) THEN dom.body[1] ELSE <<>>
    IN  IF Len(t1) < MinHomepageLen /\ IsFile(dom.body) /\ dom.blocks # <<>>
        THEN Biggest(dom.blocks) ELSE t1

SectionNavbar(dom) ==
    LET t1 == IF IsFile(dom.nav) THEN dom.nav[1] ELSE <<>>
        k == FirstIn([j \in 1..Len(dom.navPat) |-> IsFile(dom.navPat[j])], {TRUE}, 1)
    IN  IF t1 # <<>> THEN t1
        ELSE IF k <= Len(dom.navPat) THEN dom.navPat[k][1] ELSE <<>>

SectionFooter(dom) ==
    IF IsFile(dom.footer) THEN dom.footer[1]
    ELSE IF IsFile(dom.footerPat) THEN dom.footerPat[1] ELSE <<>>

SectionCaseStudy(dom) ==
    IF IsFile(dom.csMain) THEN dom.csMain[1] ELSE dom.all

extract_section_from_html(html, section_type) ==
    IF html = EmptyHtml THEN <<>>
    ELSE clean_text(CASE section_type = "navbar" -> SectionNavbar(html[1])
                      [] section_type = "footer" -> SectionFooter(html[1])
                      [] section_type = "homepage" -> SectionHomepage(html[1])
                      [] section_type = "case_study" -> SectionCaseStudy(html[1])
                      [] OTHER -> <<>>)

(* ------------------------- link classification ------------------------ *)
\* str.lower() on a token
Lower(tok) ==
    CASE tok = "Case-Study" -> "case-study"
      [] tok = "JavaScript:" -> "javascript:"
      [] OTHER -> tok

LowerSeq(s) == [i \in 1..Len(s) |-> Lower(s[i])]

\* tokens in which one of the keywords 'case-study', 'case-studies',
\* 'success-story', 'success-stories', 'customer-story', 'customer-stories',
\* 'case', 'stories' occurs as a substring
KeywordTokens ==
    {"case-study", "case-studies", "success-story", "success-stories",
     "customer-story", "customer-stories", "case", "stories", "showcase"}

\* the keywords '/clients/' and '/work/' span three tokens
HasPathKeyword(s) ==
    \E i \in 1..(Len(s) - 2) :
        s[i] = "/" /\ s[i + 1] \in {"clients", "work"} /\ s[i + 2] = "/"

IsCaseStudyHref(href) ==
    \/ \E i \in 1..Len(href) : Lower(href[i]) \in KeywordTokens
    \/ HasPathKeyword(LowerSeq(href))

\* urllib.parse.urljoin(url, href)
urljoin(url, href) ==
    LET origin == SubSeq(url, 1, FirstIn(url, {"/", "?", "#"}, 3) - 1)
        noFrag == SubSeq(url, 1, FirstIn(url, {"#"}, 1) - 1)
        noQuery == SubSeq(url, 1, FirstIn(url, {"?", "#"}, 1) - 1)
        slash == LastOf(noQuery, "/", Len(noQuery))
    IN  IF href = <<>> THEN url
        ELSE IF href[1] \in Schemes \/ href[1] = "javascript:" \/ href[1] = "JavaScript:"
             THEN href
        ELSE IF href[1] = "/" THEN origin \o href
        ELSE IF href[1] = "#" THEN noFrag \o href
        ELSE IF href[1] = "?" THEN noQuery \o href
        ELSE IF slash = 0 THEN noQuery \o <<"/">> \o href
        ELSE SubSeq(noQuery, 1, slash) \o href

IsHttpUrl(u) == Len(u) >= 2 /\ u[1] \in Schemes /\ u[2] = "//"

\* the loop with the internal test made on every link, keyword or not
RECURSIVE Classify_internal_too(_, _, _, _)
Classify_internal_too(url, links, n, max_internal) ==
    IF n = 0 THEN [case |-> <<>>, internal |-> <<>>]
    ELSE LET acc == Classify_internal_too(url, links, n - 1, max_internal)
             href == Strip(links[n])
             full_url == urljoin(url, href)
             acc2 == IF IsCaseStudyHref(href) /\ full_url \notin Range(acc.case)
                     THEN [acc EXCEPT !.case = Append(@, full_url)] ELSE acc
         IN  IF ~IsHttpUrl(full_url) THEN acc
             ELSE IF "#" \in Range(href) \/ "javascript:" \in Range(LowerSeq(href)) THEN acc
             ELSE IF StartsWith(full_url, url) /\ full_url # url
                     /\ Len(acc2.internal) < max_internal
                  THEN [acc2 EXCEPT !.internal = Append(@, full_url)]
             ELSE acc2

\* the loop over soup.find_all('a', href=True): the candidate lists after the
\* first n links
RECURSIVE Classify(_, _, _, _)
Classify(url, links, n, max_internal) ==
    IF n = 0 THEN [case |-> <<>>, internal |-> <<>>]
    ELSE LET acc == Classify(url, links, n - 1, max_internal)
             href == Strip(links[n])
             full_url == urljoin(url, href)
         IN  IF ~IsHttpUrl(full_url) THEN acc
             ELSE IF "#" \in Range(href) \/ "javascript:" \in Range(LowerSeq(href)) THEN acc
             ELSE IF IsCaseStudyHref(href)
                  THEN IF full_url \in Range(acc.case) THEN acc
                       ELSE [acc EXCEPT !.case = Append(@, full_url)]
             ELSE IF StartsWith(full_url, url) /\ full_url # url
                  THEN IF Len(acc.internal) < max_internal
                       THEN [acc EXCEPT !.internal = Append(@, full_url)]
                       ELSE acc
             ELSE acc

case_study_candidates(url, html, max_internal) ==
    IF html = EmptyHtml THEN <<>>
    ELSE Classify(url, html[1].links, Len(html[1].links), max_internal).case

internal_candidates(url, html, max_internal) ==
    IF html = EmptyHtml THEN <<>>
    ELSE Classify(url, html[1].links, Len(html[1].links), max_internal).internal

(* ---------------------------- the fetcher ----------------------------- *)
\* What requests.get does for one call: it raises (err), or returns a response
\* with a status code and a body.
ErrResponse == [err |-> TRUE, status |-> 0, text |-> EmptyHtml]
Http(status, text) == [err |-> FALSE, status |-> status, text |-> text]

\* what the server of each configured site can answer
HomeResponses(url) ==
    IF url = UrlA
    THEN {ErrResponse, Http(404, <<DomBare>>), Http(200, <<DomRich>>), Http(200, <<DomBare>>)}
    ELSE {ErrResponse, Http(200, <<DomPlain>>)}
CaseResponses == {ErrResponse, Http(404, <<DomCase>>), Http(200, <<DomCase>>)}

HtmlLen(html) == IF html = EmptyHtml THEN 0 ELSE html[1].size

(* ------------------------- the raw directory -------------------------- *)
\* data/raw/<domain>/ : whether the directory exists, and its files
CaseNums == 1..MAX_CASE_STUDY_PAGES
NoDir ==
    [dir |-> FALSE, homepage |-> NoFile, cases |-> [n \in CaseNums |-> NoFile],
     metadata |-> NoFile, extracted |-> NoFile]

\* f'case_study_{i:02d}'
CaseKey(i) == IF i < 10 THEN "case_study_0" \o ToString(i) ELSE "case_study_" \o ToString(i)

\* the places where a file-system call of the pipeline can fail
RawFaults == {"mkdir", "homepage.html", "case_study", "metadata.json", "extracted.json"}

(* ------------------------------ crawler ------------------------------- *)
\* the loop over enumerate(case_study_candidates[:max_case_studies], 1), after
\* its first n iterations; case_number is the number the i-th candidate is
\* saved under when case_study_fetched pages were saved before it
case_number(i, fetched) == i

RECURSIVE CaseLoop(_, _, _, _, _, _)
CaseLoop(cands, n, rawd, pages, timestamp, in) ==
    IF n = 0 THEN [rawd |-> rawd, pages |-> pages, case_study_fetched |-> 0]
    ELSE LET acc == CaseLoop(cands, n - 1, rawd, pages, timestamp, in)
             case_resp == in.cresp[n]
             k == case_number(n, acc.case_study_fetched)
         IN  IF case_resp.err \/ case_resp.status # 200 \/ "case_study" \in in.down
             THEN acc
             ELSE [rawd |-> [acc.rawd EXCEPT !.cases[k] = File(case_resp.text)],
                   pages |-> (CaseKey(k) :>
                                 [url |-> cands[n], status |-> case_resp.status,
                                  size_bytes |-> HtmlLen(case_resp.text),
                                  timestamp |-> timestamp]) @@ acc.pages,
                   case_study_fetched |-> acc.case_study_fetched + 1]

\* the loop over every candidate, without the [:max_case_studies] slice
crawl_study_urls_uncapped(url, html, max_case_studies, max_internal) ==
    case_study_candidates(url, html, max_internal)

\* in = [hresp, cresp, down]: the homepage response, the response to the n-th
\* case-study request, the file-system calls that fail.
\* The value is [raised, rawd, result, requests]: whether the call raised, the
\* site's raw directory afterwards, the returned dict, the URLs requested.
crawl_study_urls(url, html, max_case_studies, max_internal) ==
    LET c == case_study_candidates(url, html, max_internal)
    IN  SubSeq(c, 1, IF Len(c) < max_case_studies THEN Len(c) ELSE max_case_studies)

\* the except branch of the homepage fetch
homepage_failed_as_partial(metadata) ==
    [status |-> "partial", reason |-> "homepage_fetch_error", metadata |-> metadata]

homepage_failed(metadata) ==
    [status |-> "failed", reason |-> "homepage_fetch_error",
     metadata |-> [metadata EXCEPT !.pages =
                      "homepage" :> [status |-> 0, error |-> "str(e)"]]]

crawl_website(url, rawd, execution_date, max_case_studies, max_internal, in) ==
    LET domain == get_domain(url)
        timestamp == execution_date
        metadata == [website |-> url, domain |-> domain,
                     crawl_timestamp |-> timestamp, pages |-> <<>>]
        made == [rawd EXCEPT !.dir = TRUE]
        status == in.hresp.status
        html == IF status = 200 THEN in.hresp.text ELSE EmptyHtml
        saved == [made EXCEPT !.homepage = File(html)]
        pages1 == "homepage" :> [url |-> url, status |-> status,
                                 size_bytes |-> HtmlLen(html), timestamp |-> timestamp]
        cands == crawl_study_urls(url, html, max_case_studies, max_internal)
        loop == CaseLoop(cands, Len(cands), saved, pages1, timestamp, in)
        metadata2 == [metadata EXCEPT !.pages = loop.pages]
    IN  IF "mkdir" \in in.down
        THEN [raised |-> TRUE, rawd |-> rawd, result |-> [status |-> "raised"],
              requests |-> <<>>]
        ELSE IF in.hresp.err \/ "homepage.html" \in in.down
        THEN [raised |-> FALSE, rawd |-> made,
              result |-> homepage_failed(metadata),
              requests |-> <<url>>]
        ELSE IF status # 200
        THEN [raised |-> FALSE, rawd |-> saved,
              result |-> [status |-> "partial",
                          reason |-> "homepage_" \o ToString(status),
                          metadata |-> [metadata EXCEPT !.pages = pages1]],
              requests |-> <<url>>]
        ELSE IF "metadata.json" \in in.down
        THEN [raised |-> FALSE, rawd |-> loop.rawd,
              result |-> [status |-> "partial", reason |-> "parsing_error",
                          metadata |-> metadata2],
              requests |-> <<url>> \o cands]
        ELSE [raised |-> FALSE,
              rawd |-> [loop.rawd EXCEPT !.metadata = File(metadata2)],
              result |-> [status |-> "success",
                          case_studies_found |-> loop.case_study_fetched,
                          metadata_path |-> <<domain, "metadata.json">>],
              requests |-> <<url>> \o cands]

(* ------------------------------ extractor ----------------------------- *)
\* extracted["sections"] is a dict in insertion order: a sequence of
\* [section, content] pairs
SectionKeys(sections) == [i \in 1..Len(sections) |-> sections[i].section]
HasSection(sections, name) == \E i \in 1..Len(sections) : sections[i].section = name
SectionText(sections, name) ==
    sections[CHOOSE i \in 1..Len(sections) : sections[i].section = name].content

\* the while-loop over case_study_{i:02d}.html, started at page i
RECURSIVE case_content(_, _)
case_content(rawd, i) ==
    IF i \notin CaseNums \/ ~IsFile(rawd.cases[i]) THEN <<>>
    ELSE LET page_text == extract_section_from_html(rawd.cases[i][1], "case_study")
         IN  (IF page_text # <<>> THEN <<page_text>> ELSE <<>>) \o case_content(rawd, i + 1)

\* navbar and footer computed whenever homepage.html exists
extract_sections_navfoot_always(rawd) ==
    LET home == IF IsFile(rawd.homepage)
                THEN <<[section |-> "homepage",
                        content |-> extract_section_from_html(rawd.homepage[1], "homepage")]>>
                ELSE <<>>
        navfoot == IF home # <<>>
                   THEN <<[section |-> "navbar",
                           content |-> extract_section_from_html(rawd.homepage[1], "navbar")],
                          [section |-> "footer",
                           content |-> extract_section_from_html(rawd.homepage[1], "footer")]>>
                   ELSE <<>>
        cases == case_content(rawd, 1)
    IN  home \o navfoot \o
        (IF cases # <<>> THEN <<[section |-> "case_study", content |-> JoinSp(cases)]>>
         ELSE <<>>)

extract_sections(rawd) ==
    LET home == IF IsFile(rawd.homepage)
                THEN <<[section |-> "homepage",
                        content |-> extract_section_from_html(rawd.homepage[1], "homepage")]>>
                ELSE <<>>
        navfoot == IF home # <<>> /\ home[1].content # <<>>
                   THEN <<[section |-> "navbar",
                           content |-> extract_section_from_html(rawd.homepage[1], "navbar")],
                          [section |-> "footer",
                           content |-> extract_section_from_html(rawd.homepage[1], "footer")]>>
                   ELSE <<>>
        cases == case_content(rawd, 1)
    IN  home \o navfoot \o
        (IF cases # <<>> THEN <<[section |-> "case_study", content |-> JoinSp(cases)]>>
         ELSE <<>>)

\* The value is [raised, rawd, result].
extract_and_tag(url, rawd, execution_date, down) ==
    LET domain == get_domain(url)
        extracted == [website |-> url, domain |-> domain,
                      crawl_timestamp |-> execution_date,
                      sections |-> extract_sections(rawd)]
    IN  IF ~rawd.dir
        THEN [raised |-> FALSE, rawd |-> rawd,
              result |-> [status |-> "skipped", reason |-> "no_raw_data"]]
        ELSE IF "extracted.json" \in down
        THEN [raised |-> TRUE, rawd |-> rawd, result |-> [status |-> "raised"]]
        ELSE [raised |-> FALSE, rawd |-> [rawd EXCEPT !.extracted = File(extracted)],
              result |-> [status |-> "success",
                          sections_extracted |-> SectionKeys(extracted.sections),
                          output_path |-> <<domain, "extracted.json">>]]

(* ----------------------------- transformer ---------------------------- *)
\* metadata.get("pages", {}).get("homepage", {}).get("status", 500)
homepage_status(metadata) ==
    IF "homepage" \in DOMAIN metadata.pages
    THEN metadata.pages["homepage"].status ELSE DefaultHomepageStatus

has_content(sections) == \E i \in 1..Len(sections) : Len(sections[i].content) > 0

is_active_status_only(metadata, sections) == homepage_status(metadata) = 200

is_active(metadata, sections) == homepage_status(metadata) = 200 /\ has_content(sections)

\* the loop over extracted["sections"].items() that appends one record each
section_records_nonempty(url, sections, timestamp, active) ==
    LET filled == SelectSeq(sections, LAMBDA x : x.content # <<>>)
    IN  [i \in 1..Len(filled) |->
            [website |-> url, section |-> filled[i].section,
             content |-> filled[i].content,
             crawl_timestamp |-> timestamp, isActive |-> active]]

section_records(url, sections, timestamp, active) ==
    [i \in 1..Len(sections) |->
        [website |-> url, section |-> sections[i].section,
         content |-> sections[i].content,
         crawl_timestamp |-> timestamp, isActive |-> active]]

\* the Record file opened for appending: the records are added to those of
\* the file
transform_to_standard_appending(url, rawd, file, execution_date, down) ==
    LET domain == get_domain(url)
        extracted == rawd.extracted[1]
        metadata == rawd.metadata[1]
        active == is_active(metadata, extracted.sections)
        records == section_records(url, extracted.sections, execution_date, active)
    IN  IF ~rawd.dir
        THEN [raised |-> FALSE, file |-> file,
              result |-> [status |-> "skipped", reason |-> "no_raw_data"]]
        ELSE IF ~(IsFile(rawd.extracted) /\ IsFile(rawd.metadata))
        THEN [raised |-> FALSE, file |-> file,
              result |-> [status |-> "skipped", reason |-> "missing_inputs"]]
        ELSE IF "processed" \in down
        THEN [raised |-> TRUE, file |-> file, result |-> [status |-> "raised"]]
        ELSE [raised |-> FALSE,
              file |-> File((IF IsFile(file) THEN file[1] ELSE <<>>) \o records),
              result |-> [status |-> "success", records_count |-> Len(records),
                          output_path |-> <<domain, ".json">>]]

\* The value is [raised, file, result]: file is data/processed/<domain>.json
\* afterwards.
transform_to_standard(url, rawd, file, execution_date, down) ==
    LET domain == get_domain(url)
        extracted == rawd.extracted[1]
        metadata == rawd.metadata[1]
        active == is_active(metadata, extracted.sections)
        records == section_records(url, extracted.sections, execution_date, active)
    IN  IF ~rawd.dir
        THEN [raised |-> FALSE, file |-> file,
              result |-> [status |-> "skipped", reason |-> "no_raw_data"]]
        ELSE IF ~(IsFile(rawd.extracted) /\ IsFile(rawd.metadata))
        THEN [raised |-> FALSE, file |-> file,
              result |-> [status |-> "skipped", reason |-> "missing_inputs"]]
        ELSE IF "processed" \in down
        THEN [raised |-> TRUE, file |-> file, result |-> [status |-> "raised"]]
        ELSE [raised |-> FALSE, file |-> File(records),
              result |-> [status |-> "success", records_count |-> Len(records),
                          output_path |-> <<domain, ".json">>]]

(* ----------------------------- aggregator ----------------------------- *)
\* url.split('//')[-1].split('/')[0]
simplified_domain(url) ==
    LET rest == SubSeq(url, LastOf(url, "//", Len(url)) + 1, Len(url))
    IN  SubSeq(rest, 1, FirstIn(rest, {"/"}, 1) - 1)

\* the names <name>.json can take in data/processed
ProcessedKeys == Domains \cup {simplified_domain(websites[i]) : i \in Sites}

\* the loop over the configured websites, after its first n iterations
RECURSIVE LoadRecords(_, _, _)
LoadRecords(sites, processed, n) ==
    IF n = 0 THEN [all_records |-> <<>>, website_active_status |-> <<>>]
    ELSE LET acc == LoadRecords(sites, processed, n - 1)
             url == sites[n]
             file == processed[simplified_domain(url)]
         IN  IF ~IsFile(file) THEN acc
             ELSE [all_records |-> acc.all_records \o file[1],
                   website_active_status |->
                       IF file[1] # <<>>
                       THEN (url :> file[1][1].isActive) @@ acc.website_active_status
                       ELSE acc.website_active_status]

MinOf(S) == CHOOSE x \in S : \A y \in S : x <= y
MaxOf(S) == CHOOSE x \in S : \A y \in S : y <= x

\* round(mean(lengths), 2), in hundredths
Avg100(lengths) ==
    LET n == Len(lengths)
        q == (100 * SumSeq(lengths)) \div n
        r == (100 * SumSeq(lengths)) % n
    IN  IF 2 * r > n \/ (2 * r = n /\ q % 2 = 1) THEN q + 1 ELSE q

\* the per-section statistics, Records with empty content included
content_length_stats_with_empty(all_records) ==
    LET names == {all_records[i].section : i \in 1..Len(all_records)}
        lengths(name) ==
            LET rs == SelectSeq(all_records, LAMBDA r : r.section = name)
            IN  [i \in 1..Len(rs) |-> Len(rs[i].content)]
    IN  [name \in names |->
            [min |-> MinOf(Range(lengths(name))), max |-> MaxOf(Range(lengths(name))),
             avg |-> Avg100(lengths(name)), count |-> Len(lengths(name))]]

content_length_stats(all_records) ==
    LET filled == SelectSeq(all_records, LAMBDA r : r.content # <<>>)
        names == {filled[i].section : i \in 1..Len(filled)}
        lengths(name) ==
            LET rs == SelectSeq(filled, LAMBDA r : r.section = name)
            IN  [i \in 1..Len(rs) |-> Len(rs[i].content)]
    IN  [name \in names |->
            [min |-> MinOf(Range(lengths(name))), max |-> MaxOf(Range(lengths(name))),
             avg |-> Avg100(lengths(name)), count |-> Len(lengths(name))]]

\* inactive_websites taken as the rest of the configured list
compute_metrics_inactive_rest(sites, processed, execution_date) ==
    LET loaded == LoadRecords(sites, processed, Len(sites))
        status == loaded.website_active_status
    IN  [total_websites_processed |-> Cardinality(DOMAIN status),
         num_websites_with_case_studies |->
             Len(SelectSeq(loaded.all_records,
                           LAMBDA r : r.section = "case_study" /\ Len(r.content) > 0)),
         active_websites |-> Cardinality({u \in DOMAIN status : status[u]}),
         inactive_websites |->
             Len(sites) - Cardinality({u \in DOMAIN status : status[u]}),
         content_length_stats |-> content_length_stats(loaded.all_records),
         aggregation_timestamp |-> execution_date]

\* num_websites_with_case_studies counting the non-empty Records of any section
compute_metrics_any_section(sites, processed, execution_date) ==
    LET loaded == LoadRecords(sites, processed, Len(sites))
        status == loaded.website_active_status
    IN  [total_websites_processed |-> Cardinality(DOMAIN status),
         num_websites_with_case_studies |->
             Len(SelectSeq(loaded.all_records, LAMBDA r : Len(r.content) > 0)),
         active_websites |-> Cardinality({u \in DOMAIN status : status[u]}),
         inactive_websites |-> Cardinality({u \in DOMAIN status : ~status[u]}),
         content_length_stats |-> content_length_stats(loaded.all_records),
         aggregation_timestamp |-> execution_date]

compute_metrics(sites, processed, execution_date) ==
    LET loaded == LoadRecords(sites, processed, Len(sites))
        status == loaded.website_active_status
    IN  [total_websites_processed |-> Cardinality(DOMAIN status),
         num_websites_with_case_studies |->
             Len(SelectSeq(loaded.all_records,
                           LAMBDA r : r.section = "case_study" /\ Len(r.content) > 0)),
         active_websites |-> Cardinality({u \in DOMAIN status : status[u]}),
         inactive_websites |-> Cardinality({u \in DOMAIN status : ~status[u]}),
         content_length_stats |-> content_length_stats(loaded.all_records),
         aggregation_timestamp |-> execution_date]

\* the summary written before the test for records
compute_and_save_metrics_always_writes(sites, processed, file, execution_date, down) ==
    LET metrics == compute_metrics(sites, processed, execution_date)
    IN  IF "summary.json" \in down
        THEN [raised |-> TRUE, file |-> file, result |-> [status |-> "raised"]]
        ELSE IF LoadRecords(sites, processed, Len(sites)).all_records = <<>>
        THEN [raised |-> FALSE, file |-> File(metrics),
              result |-> [status |-> "skipped", reason |-> "no_data"]]
        ELSE [raised |-> FALSE, file |-> File(metrics),
              result |-> [status |-> "success", metrics_summary |-> metrics,
                          output_path |-> <<"summary.json">>]]

\* The value is [raised, file, result]: file is data/metrics/summary.json
\* afterwards.
compute_and_save_metrics(sites, processed, file, execution_date, down) ==
    LET metrics == compute_metrics(sites, processed, execution_date)
    IN  IF LoadRecords(sites, processed, Len(sites)).all_records = <<>>
        THEN [raised |-> FALSE, file |-> file,
              result |-> [status |-> "skipped", reason |-> "no_data"]]
        ELSE IF "summary.json" \in down
        THEN [raised |-> TRUE, file |-> file, result |-> [status |-> "raised"]]
        ELSE [raised |-> FALSE, file |-> File(metrics),
              result |-> [status |-> "success", metrics_summary |-> metrics,
                          output_path |-> <<"summary.json">>]]

(* ------------------------------ the DAG ------------------------------- *)
\* t0_get_list >> t1_crawl >> t2_extract >> t3_transform >> t4_aggregate.
\* The three mapped tasks expand over the same list, so each instance of one
\* waits for every instance of the one before (trigger rule all_success);
\* t4_aggregate has trigger rule ALL_DONE.  A task whose callable raises is
\* retried up to Retries times and then fails.
Stages == <<"crawl_website", "extract_content", "transform_data">>
StageNums == 1..Len(Stages)
Finished == {"success", "failed", "upstream_failed", "skipped"}
Runnable == {"none", "up_for_retry"}

\* the state of a task instance after its try-th try
AfterTry(raised, try) ==
    IF ~raised THEN "success"
    ELSE IF try > Retries THEN "failed" ELSE "up_for_retry"

\* all_success over the instances of the upstream task
UpstreamSucceeded(states) == \A j \in DOMAIN states : states[j] = "success"
UpstreamFailed(states) == \E j \in DOMAIN states : states[j] \in {"failed", "upstream_failed"}
\* ALL_DONE over the instances of the upstream task
UpstreamDone(states) == \A j \in DOMAIN states : states[j] \in Finished

\* a fault point <<d, f>>: call f fails in the directory of domain d (the
\* directory is missing or not writable); <<>> stands for data/metrics
FaultPoints ==
    {<<get_domain(UrlA), f>> : f \in RawFaults \cup {"processed"}}
        \cup {<<<<>>, "summary.json">>}
Down(F, d) == {p[2] : p \in {q \in F : q[1] = d}}

NoResult == [status |-> "none"]

VARIABLES
    raw,        \* raw[d]: data/raw/<d>/
    processed,  \* processed[d]: data/processed/<d>.json
    summary,    \* data/metrics/summary.json
    fsDown,     \* the file-system calls that fail
    run,        \* the execution date of the current DAG run
    lst,        \* state of t0_get_list
    st,         \* st[k][i]: state of instance i of the k-th mapped task
    tries,      \* tries[k][i]: number of times its callable was invoked
    agg,        \* state of t4_aggregate
    aggTries,   \* number of times aggregate_all was invoked in this run
    res,        \* res[k][i]: what the stage function last returned in this run
    aggRes,     \* what compute_and_save_metrics last returned in this run
    io,         \* io[i]: the homepage response and the requests of the last crawl
    config,     \* config/websites.yaml as the aggregator run on its own loads it
    cleaning,   \* a text and the number of times clean_text was applied to it
    page,       \* a homepage handed to the link classification, and its lists
    rate,       \* the clock, the limiter of each worker process, the requests sent
    call,       \* the last stage call made on its own: stage, inputs, result
    alone       \* alone[n]: the artifacts of site n had only its own stages run

\* the state of the components exercised on their own
standalone == <<config, cleaning, page, rate, call, alone>>

vars == <<raw, processed, summary, fsDown, run, lst, st, tries, agg, aggTries,
          res, aggRes, io, standalone>>

NoCleaning == [input |-> <<>>, output |-> <<>>, times |-> 0]
NoPage == [url |-> <<>>, links |-> <<>>, max_internal |-> 0, classified |-> FALSE,
           case |-> <<>>, internal |-> <<>>]
NoRate == [clock |-> 0, limiter |-> <<>>, sent |-> <<>>]
NoCall == [stage |-> "none", site |-> 0, in |-> <<>>, raised |-> FALSE,
           result |-> NoResult, times |-> 0]

NoAlone == <<>>

NoIo == [hresp |-> ErrResponse, requests |-> <<>>]

Init ==
    /\ raw = [d \in Domains |-> NoDir]
    /\ processed = [d \in ProcessedKeys |-> NoFile]
    /\ summary = NoFile
    /\ fsDown \in {F \in SUBSET FaultPoints : Cardinality(F) <= MaxFaults}
    /\ run = 1
    /\ lst = "none"
    /\ st = [k \in StageNums |-> [i \in Sites |-> "none"]]
    /\ tries = [k \in StageNums |-> [i \in Sites |-> 0]]
    /\ agg = "none"
    /\ aggTries = 0
    /\ res = [k \in StageNums |-> [i \in Sites |-> NoResult]]
    /\ aggRes = NoResult
    /\ io = [i \in Sites |-> NoIo]
    /\ config = websites
    /\ cleaning = NoCleaning
    /\ page = NoPage
    /\ rate = NoRate
    /\ call = NoCall
    /\ alone = NoAlone

get_websites_list ==
    /\ lst = "none"
    /\ lst' = "success"
    /\ UNCHANGED <<raw, processed, summary, fsDown, run, st, tries, agg, aggTries,
                   res, aggRes, io, standalone>>

Ran(k, i, raised, result) ==
    /\ tries' = [tries EXCEPT ![k][i] = @ + 1]
    /\ st' = [st EXCEPT ![k][i] = AfterTry(raised, tries[k][i] + 1)]
    /\ res' = [res EXCEPT ![k][i] = result]

crawl_single(i) ==
    /\ lst = "success"
    /\ st[1][i] \in Runnable
    /\ \E hresp \in HomeResponses(websites[i]) :
       \E cresp \in [1..Len(crawl_study_urls(websites[i], hresp.text,
                                MAX_CASE_STUDY_PAGES, MAX_INTERNAL_PAGES)) -> CaseResponses] :
          LET url == websites[i]
              d == get_domain(url)
              out == crawl_website(url, raw[d], run, MAX_CASE_STUDY_PAGES,
                                   MAX_INTERNAL_PAGES,
                                   [hresp |-> hresp, cresp |-> cresp,
                                    down |-> Down(fsDown, d)])
          IN  /\ raw' = [raw EXCEPT ![d] = out.rawd]
              /\ Ran(1, i, out.raised, out.result)
              /\ io' = [io EXCEPT ![i] = [hresp |-> hresp, requests |-> out.requests]]
    /\ UNCHANGED <<processed, summary, fsDown, run, lst, agg, aggTries, aggRes, standalone>>

extract_single(i) ==
    /\ UpstreamSucceeded(st[1])
    /\ st[2][i] \in Runnable
    /\ LET url == websites[i]
           d == get_domain(url)
           out == extract_and_tag(url, raw[d], run, Down(fsDown, d))
       IN  /\ raw' = [raw EXCEPT ![d] = out.rawd]
           /\ Ran(2, i, out.raised, out.result)
    /\ UNCHANGED <<processed, summary, fsDown, run, lst, agg, aggTries, aggRes, io, standalone>>

transform_single(i) ==
    /\ UpstreamSucceeded(st[2])
    /\ st[3][i] \in Runnable
    /\ LET url == websites[i]
           d == get_domain(url)
           out == transform_to_standard(url, raw[d], processed[d], run, Down(fsDown, d))
       IN  /\ processed' = [processed EXCEPT ![d] = out.file]
           /\ Ran(3, i, out.raised, out.result)
    /\ UNCHANGED <<raw, summary, fsDown, run, lst, agg, aggTries, aggRes, io, standalone>>

\* the scheduler marks the instances of a task whose upstream task has a
\* failed instance
mark_upstream_failed(k) ==
    /\ k > 1
    /\ UpstreamFailed(st[k - 1])
    /\ \E i \in Sites : st[k][i] = "none"
    /\ st' = [st EXCEPT ![k] = [i \in Sites |-> "upstream_failed"]]
    /\ UNCHANGED <<raw, processed, summary, fsDown, run, lst, tries, agg, aggTries,
                   res, aggRes, io, standalone>>

aggregate_all ==
    /\ UpstreamDone(st[3])
    /\ agg \in Runnable
    /\ LET out == compute_and_save_metrics(websites, processed, summary, run,
                                           Down(fsDown, <<>>))
       IN  /\ summary' = out.file
           /\ aggTries' = aggTries + 1
           /\ agg' = AfterTry(out.raised, aggTries + 1)
           /\ aggRes' = out.result
    /\ UNCHANGED <<raw, processed, fsDown, run, lst, st, tries, res, io, standalone>>

\* the run is over when no task instance is left unfinished
RunOver == agg \in Finished /\ \A k \in StageNums, i \in Sites : st[k][i] \in Finished

\* the next scheduled run (max_active_runs = 1) starts once this one is over
next_run ==
    /\ RunOver
    /\ run < MaxRuns
    /\ run' = run + 1
    /\ lst' = "none"
    /\ st' = [k \in StageNums |-> [i \in Sites |-> "none"]]
    /\ tries' = [k \in StageNums |-> [i \in Sites |-> 0]]
    /\ agg' = "none"
    /\ aggTries' = 0
    /\ res' = [k \in StageNums |-> [i \in Sites |-> NoResult]]
    /\ aggRes' = NoResult
    /\ io' = [i \in Sites |-> NoIo]
    /\ UNCHANGED <<raw, processed, summary, fsDown, standalone>>

Next ==
    \/ get_websites_list
    \/ \E i \in Sites : crawl_single(i)
    \/ \E i \in Sites : extract_single(i)
    \/ \E i \in Sites : transform_single(i)
    \/ \E k \in StageNums : mark_upstream_failed(k)
    \/ aggregate_all
    \/ next_run

Spec == Init /\ [][Next]_vars

(* --------------------- the aggregator on its own ---------------------- *)
\* compute_and_save_metrics called as the module's __main__ block calls it: on
\* the site list the configuration holds at that time and on what earlier
\* transforms left in data/processed.
UrlC == <<"https:", "//", "c.com">>
\* a second URL of the domain of UrlA
UrlA2 == <<"http:", "//", "a.com">>
AggUrls == {UrlA, UrlA2, UrlB, UrlC}
SiteLists == UNION {[1..n -> AggUrls] : n \in 0..MaxSites}

\* a text of n characters
Text(n) == [i \in 1..n |-> "x"]

\* extracted["sections"] as extract_and_tag builds it from a homepage text and
\* the texts of the case-study pages joined: navbar and footer are looked for
\* when the homepage text is not empty, case_study is set when a page has text
SectionMap(home, navbar, footer, case) ==
    <<[section |-> "homepage", content |-> home]>>
    \o (IF home # <<>>
        THEN <<[section |-> "navbar", content |-> navbar],
               [section |-> "footer", content |-> footer]>>
        ELSE <<>>)
    \o (IF case # <<>> THEN <<[section |-> "case_study", content |-> case]>> ELSE <<>>)

\* data/raw/<domain>/ once a crawl whose homepage answered 200 and an
\* extraction have run
RawWith(url, sections) ==
    [NoDir EXCEPT
        !.dir = TRUE,
        !.metadata = File([website |-> url, domain |-> get_domain(url),
                           crawl_timestamp |-> 1,
                           pages |-> "homepage" :> [url |-> url, status |-> 200,
                                                    size_bytes |-> 1, timestamp |-> 1]]),
        !.extracted = File([website |-> url, domain |-> get_domain(url),
                            crawl_timestamp |-> 1, sections |-> sections])]

\* data/processed/<domain>.json as the transform of url writes it
ProcessedFile(url, sections) ==
    transform_to_standard(url, RawWith(url, sections), NoFile, 1, {}).file

\* what data/processed can hold: no file, a file holding the empty list, or
\* the file a transform wrote
ProcessedDirs ==
    LET a == {NoFile,
              ProcessedFile(UrlA, SectionMap(Text(100), <<>>, Text(1), Text(2))),
              ProcessedFile(UrlA2, SectionMap(<<>>, <<>>, <<>>, <<>>))}
        b == {NoFile, File(<<>>),
              ProcessedFile(UrlB, SectionMap(Text(200), Text(4), <<>>, Text(3)))}
        c == {NoFile,
              ProcessedFile(UrlC, SectionMap(Text(300), <<>>, <<>>, <<>>)),
              ProcessedFile(UrlC, SectionMap(Text(300), Text(5), Text(1), Text(3)))}
    IN  {(simplified_domain(UrlA) :> fa) @@ (simplified_domain(UrlB) :> fb)
             @@ (simplified_domain(UrlC) :> fc) : fa \in a, fb \in b, fc \in c}

\* summary.json as an earlier aggregation left it
OldSummary ==
    compute_and_save_metrics(
        <<UrlB>>,
        simplified_domain(UrlB) :>
            ProcessedFile(UrlB, SectionMap(Text(200), <<>>, <<>>, <<>>)),
        NoFile, 0, {}).file

AggInit ==
    /\ raw = [d \in Domains |-> NoDir]
    /\ processed \in ProcessedDirs
    /\ summary \in {NoFile, OldSummary}
    /\ fsDown = {}
    /\ run = 1
    /\ lst = "none"
    /\ st = [k \in StageNums |-> [i \in Sites |-> "none"]]
    /\ tries = [k \in StageNums |-> [i \in Sites |-> 0]]
    /\ agg = "none"
    /\ aggTries = 0
    /\ res = [k \in StageNums |-> [i \in Sites |-> NoResult]]
    /\ aggRes = NoResult
    /\ io = [i \in Sites |-> NoIo]
    /\ config \in SiteLists
    /\ cleaning = NoCleaning
    /\ page = NoPage
    /\ rate = NoRate
    /\ call = NoCall
    /\ alone = NoAlone

aggregator_main ==
    /\ aggRes = NoResult
    /\ LET out == compute_and_save_metrics(config, processed, summary, run, {})
       IN  /\ summary' = out.file
           /\ aggRes' = out.result
    /\ UNCHANGED <<raw, processed, fsDown, run, lst, st, tries, agg, aggTries, res, io,
                   standalone>>

AggNext == aggregator_main

AggSpec == AggInit /\ [][AggNext]_vars

(* ------------------- clean_text and the links on their own ------------ *)
\* the pipeline before anything ran
PipelineIdle ==
    /\ raw = [d \in Domains |-> NoDir]
    /\ processed = [d \in ProcessedKeys |-> NoFile]
    /\ summary = NoFile
    /\ fsDown = {}
    /\ run = 1
    /\ lst = "none"
    /\ st = [k \in StageNums |-> [i \in Sites |-> "none"]]
    /\ tries = [k \in StageNums |-> [i \in Sites |-> 0]]
    /\ agg = "none"
    /\ aggTries = 0
    /\ res = [k \in StageNums |-> [i \in Sites |-> NoResult]]
    /\ aggRes = NoResult
    /\ io = [i \in Sites |-> NoIo]
    /\ config = websites

\* an ordinary character, two whitespace characters, a zero-width character
Chars == {"a", " ", "\n", "u200b"}
Texts == UNION {[1..n -> Chars] : n \in 0..MaxTextLen}

TextInit ==
    /\ PipelineIdle
    /\ cleaning \in {[input |-> t, output |-> <<>>, times |-> 0] : t \in Texts}
    /\ page = NoPage
    /\ rate = NoRate
    /\ call = NoCall
    /\ alone = NoAlone

\* clean_text applied to a text, then to its own result
clean ==
    /\ cleaning.times < 2
    /\ cleaning' =
           LET text == IF cleaning.times = 0 THEN cleaning.input ELSE cleaning.output
           IN  [input |-> text, output |-> clean_text(text),
                times |-> cleaning.times + 1]
    /\ UNCHANGED <<raw, processed, summary, fsDown, run, lst, st, tries, agg, aggTries,
                   res, aggRes, io, config, page, rate, call, alone>>

TextNext == clean

TextSpec == TextInit /\ [][TextNext]_vars

\* hrefs of a homepage: two with a case-study keyword, two internal ones, an
\* external one
HrefCaseUpper == <<"/", "Case-Study">>
HrefAbout == <<"about">>
HrefExternal == <<"https:", "//", "x.org", "/", "blog">>
LinkHrefs == {HrefCase1, HrefCaseUpper, HrefBlog, HrefAbout, HrefExternal}
LinkLists == UNION {[1..n -> LinkHrefs] : n \in 0..MaxLinks}
UrlADir == <<"https:", "//", "a.com", "/", "en", "/">>

LinkInit ==
    /\ PipelineIdle
    /\ cleaning = NoCleaning
    /\ page \in {[NoPage EXCEPT !.url = u, !.links = l, !.max_internal = m] :
                    u \in {UrlA, UrlADir}, l \in LinkLists,
                    m \in {1, 2, MAX_INTERNAL_PAGES}}
    /\ rate = NoRate
    /\ call = NoCall
    /\ alone = NoAlone

\* step 2 of crawl_website on a homepage with these links
classify ==
    /\ ~page.classified
    /\ LET html == <<[DomBare EXCEPT !.links = page.links]>>
       IN  page' = [page EXCEPT
                       !.classified = TRUE,
                       !.case = case_study_candidates(page.url, html, page.max_internal),
                       !.internal = internal_candidates(page.url, html, page.max_internal)]
    /\ UNCHANGED <<raw, processed, summary, fsDown, run, lst, st, tries, agg, aggTries,
                   res, aggRes, io, config, cleaning, rate, call, alone>>

LinkNext == classify

LinkSpec == LinkInit /\ [][LinkNext]_vars

(* ------------------------ the rate limiter ---------------------------- *)
\* @sleep_and_retry @limits(calls=60, period=60) decorates
\* rate_limited_request at import of src.utils: the counter of the decorator
\* lives in the Python process that imported the module.  The mapped crawl
\* tasks run in worker processes, each with its own import of src.utils.
\* limits counts the calls since last_reset and raises once there are more
\* than calls of them in the period; sleep_and_retry then sleeps until the
\* period is over and calls again.
Workers == 1..MaxWorkers

NewLimiter == [last_reset |-> 0, num_calls |-> 0, sleeping |-> FALSE]

\* the requests sent in the window of RATE_PERIOD seconds that ends now
SentInWindow ==
    LET times == {t \in DOMAIN rate.sent : rate.clock - t < RATE_PERIOD}
        RECURSIVE Total(_)
        Total(T) == IF T = {} THEN 0
                    ELSE LET t == CHOOSE t \in T : TRUE
                         IN  rate.sent[t] + Total(T \ {t})
    IN  Total(times)

RateInit ==
    /\ PipelineIdle
    /\ cleaning = NoCleaning
    /\ page = NoPage
    /\ rate = [clock |-> 0, limiter |-> [p \in Workers |-> NewLimiter], sent |-> <<>>]
    /\ call = NoCall
    /\ alone = NoAlone

\* a crawl running in worker process p calls rate_limited_request
rate_limited_request(p) ==
    /\ ~rate.limiter[p].sleeping
    /\ LET l == rate.limiter[p]
           period_remaining == RATE_PERIOD - (rate.clock - l.last_reset)
           l1 == IF period_remaining <= 0
                 THEN [l EXCEPT !.num_calls = 0, !.last_reset = rate.clock]
                 ELSE l
           l2 == [l1 EXCEPT !.num_calls = @ + 1]
           now == IF rate.clock \in DOMAIN rate.sent THEN rate.sent[rate.clock] ELSE 0
       IN  IF l2.num_calls > RATE_CALLS
           THEN rate' = [rate EXCEPT !.limiter[p] = [l2 EXCEPT !.sleeping = TRUE]]
           ELSE rate' = [rate EXCEPT
                            !.limiter[p] = l2,
                            !.sent = (rate.clock :> (now + 1)) @@ rate.sent]
    /\ UNCHANGED <<raw, processed, summary, fsDown, run, lst, st, tries, agg, aggTries,
                   res, aggRes, io, config, cleaning, page, call, alone>>

\* a period passes: the sleeping calls wake up, the requests sent a period ago
\* leave the window
period_passes ==
    /\ rate.clock < MaxPeriods * RATE_PERIOD
    /\ rate' = [clock |-> rate.clock + RATE_PERIOD,
                limiter |-> [p \in Workers |-> [rate.limiter[p] EXCEPT !.sleeping = FALSE]],
                sent |-> <<>>]
    /\ UNCHANGED <<raw, processed, summary, fsDown, run, lst, st, tries, agg, aggTries,
                   res, aggRes, io, config, cleaning, page, call, alone>>

RateNext ==
    \/ \E p \in Workers : rate_limited_request(p)
    \/ period_passes

RateSpec == RateInit /\ [][RateNext]_vars

(* ---------------------- the stages called again ----------------------- *)
\* The stage functions called on their own, in any order and any number of
\* times (a cleared task, the __main__ block of a module), on the disk the
\* calls before left.  call records the last call, and times whether the
\* call before it was the same call: same stage, site and inputs.
Called(stage, i, in, out) ==
    [stage |-> stage, site |-> i, in |-> in, raised |-> out.raised,
     result |-> out.result,
     times |-> IF call.stage = stage /\ call.site = i /\ call.in = in THEN 2 ELSE 1]

RerunInit ==
    /\ PipelineIdle
    /\ cleaning = NoCleaning
    /\ page = NoPage
    /\ rate = NoRate
    /\ call = NoCall
    /\ alone = NoAlone

crawl_website_call(i) ==
    /\ \E hresp \in HomeResponses(websites[i]) :
       \E cresp \in [1..Len(crawl_study_urls(websites[i], hresp.text,
                                MAX_CASE_STUDY_PAGES, MAX_INTERNAL_PAGES)) -> CaseResponses] :
          LET d == get_domain(websites[i])
              in == [hresp |-> hresp, cresp |-> cresp, down |-> {}]
              out == crawl_website(websites[i], raw[d], run, MAX_CASE_STUDY_PAGES,
                                   MAX_INTERNAL_PAGES, in)
          IN  /\ raw' = [raw EXCEPT ![d] = out.rawd]
              /\ call' = Called("crawl_website", i, in, out)
    /\ UNCHANGED <<processed, summary, fsDown, run, lst, st, tries, agg, aggTries,
                   res, aggRes, io, config, cleaning, page, rate,
                   alone>>

extract_and_tag_call(i) ==
    /\ LET d == get_domain(websites[i])
           out == extract_and_tag(websites[i], raw[d], run, {})
       IN  /\ raw' = [raw EXCEPT ![d] = out.rawd]
           /\ call' = Called("extract_and_tag", i, <<>>, out)
    /\ UNCHANGED <<processed, summary, fsDown, run, lst, st, tries, agg, aggTries,
                   res, aggRes, io, config, cleaning, page, rate,
                   alone>>

transform_to_standard_call(i) ==
    /\ LET d == get_domain(websites[i])
           out == transform_to_standard(websites[i], raw[d], processed[d], run, {})
       IN  /\ processed' = [processed EXCEPT ![d] = out.file]
           /\ call' = Called("transform_to_standard", i, <<>>, out)
    /\ UNCHANGED <<raw, summary, fsDown, run, lst, st, tries, agg, aggTries,
                   res, aggRes, io, config, cleaning, page, rate,
                   alone>>

compute_and_save_metrics_call ==
    /\ LET out == compute_and_save_metrics(websites, processed, summary, run, {})
       IN  /\ summary' = out.file
           /\ call' = Called("compute_and_save_metrics", 0, <<>>, out)
    /\ UNCHANGED <<raw, processed, fsDown, run, lst, st, tries, agg, aggTries,
                   res, aggRes, io, config, cleaning, page, rate,
                   alone>>

\* the site whose stages are called; the aggregation reads the whole list
RerunSites == {i \in Sites : websites[i] = UrlA}

RerunNext ==
    \/ \E i \in RerunSites : crawl_website_call(i)
    \/ \E i \in RerunSites : extract_and_tag_call(i)
    \/ \E i \in RerunSites : transform_to_standard_call(i)
    \/ compute_and_save_metrics_call

RerunSpec == RerunInit /\ [][RerunNext]_vars

(* --------------------- two sites, stages interleaved ------------------ *)
\* The Crawl, Extraction and Transform of two distinct configured sites, each
\* run once in stage order, the stages of the two sites interleaved in any
\* order.  alone[n] is the disk of site n when only its own stages run, on the
\* same responses.
PairUrls == {UrlA, UrlA2, UrlB}
PairDomains == {get_domain(u) : u \in PairUrls}
Pair == 1..2

InterleaveInit ==
    /\ raw = [d \in PairDomains |-> NoDir]
    /\ processed = [d \in PairDomains |-> NoFile]
    /\ summary = NoFile
    /\ fsDown = {}
    /\ run = 1
    /\ lst = "success"
    /\ st = [k \in StageNums |-> [n \in Pair |-> "none"]]
    /\ tries = [k \in StageNums |-> [n \in Pair |-> 0]]
    /\ agg = "none"
    /\ aggTries = 0
    /\ res = [k \in StageNums |-> [n \in Pair |-> NoResult]]
    /\ aggRes = NoResult
    /\ io = [n \in Pair |-> NoIo]
    /\ config \in {c \in [Pair -> PairUrls] : c[1] # c[2]}
    /\ cleaning = NoCleaning
    /\ page = NoPage
    /\ rate = NoRate
    /\ call = NoCall
    /\ alone = [n \in Pair |-> [rawd |-> NoDir, file |-> NoFile]]

site_crawl(n) ==
    /\ st[1][n] = "none"
    /\ \E hresp \in HomeResponses(config[n]) :
       \E cresp \in [1..Len(crawl_study_urls(config[n], hresp.text,
                                MAX_CASE_STUDY_PAGES, MAX_INTERNAL_PAGES)) -> CaseResponses] :
          LET d == get_domain(config[n])
              in == [hresp |-> hresp, cresp |-> cresp, down |-> {}]
              out == crawl_website(config[n], raw[d], run, MAX_CASE_STUDY_PAGES,
                                   MAX_INTERNAL_PAGES, in)
              solo == crawl_website(config[n], alone[n].rawd, run, MAX_CASE_STUDY_PAGES,
                                    MAX_INTERNAL_PAGES, in)
          IN  /\ raw' = [raw EXCEPT ![d] = out.rawd]
              /\ alone' = [alone EXCEPT ![n].rawd = solo.rawd]
              /\ st' = [st EXCEPT ![1][n] = "success"]
    /\ UNCHANGED <<processed, summary, fsDown, run, lst, tries, agg, aggTries, res,
                   aggRes, io, config, cleaning, page, rate, call>>

site_extract(n) ==
    /\ st[1][n] = "success"
    /\ st[2][n] = "none"
    /\ LET d == get_domain(config[n])
           out == extract_and_tag(config[n], raw[d], run, {})
           solo == extract_and_tag(config[n], alone[n].rawd, run, {})
       IN  /\ raw' = [raw EXCEPT ![d] = out.rawd]
           /\ alone' = [alone EXCEPT ![n].rawd = solo.rawd]
           /\ st' = [st EXCEPT ![2][n] = "success"]
    /\ UNCHANGED <<processed, summary, fsDown, run, lst, tries, agg, aggTries, res,
                   aggRes, io, config, cleaning, page, rate, call>>

site_transform(n) ==
    /\ st[2][n] = "success"
    /\ st[3][n] = "none"
    /\ LET d == get_domain(config[n])
           out == transform_to_standard(config[n], raw[d], processed[d], run, {})
           solo == transform_to_standard(config[n], alone[n].rawd, alone[n].file, run, {})
       IN  /\ processed' = [processed EXCEPT ![d] = out.file]
           /\ alone' = [alone EXCEPT ![n].file = solo.file]
           /\ st' = [st EXCEPT ![3][n] = "success"]
    /\ UNCHANGED <<raw, summary, fsDown, run, lst, tries, agg, aggTries, res,
                   aggRes, io, config, cleaning, page, rate, call>>

InterleaveNext ==
    \/ \E n \in Pair : site_crawl(n)
    \/ \E n \in Pair : site_extract(n)
    \/ \E n \in Pair : site_transform(n)

InterleaveSpec == InterleaveInit /\ [][InterleaveNext]_vars

(* ----------------------- crawl_website on its own --------------------- *)
\* crawl_website called once on an empty raw directory, as the module's
\* __main__ block calls it, with a 200 homepage of two or of four case-study
\* links and a cap from 1 to the default.
HrefClients == <<"/", "clients", "/", "x">>

DomMany ==
    [links |-> <<HrefCase1, HrefBlog, HrefCase2, HrefCaseUpper, HrefClients>>,
     main |-> << <<"m">> >>, body |-> << <<"b">> >>, blocks |-> <<>>,
     nav |-> <<>>, navPat |-> << <<>>, <<>> >>,
     footer |-> <<>>, footerPat |-> <<>>,
     csMain |-> << <<"m">> >>, all |-> <<"m">>, size |-> 11]

FetchInit ==
    /\ PipelineIdle
    /\ cleaning = NoCleaning
    /\ page = NoPage
    /\ rate = NoRate
    /\ call = NoCall
    /\ alone = NoAlone

crawler_main ==
    /\ call.stage = "none"
    /\ \E i \in RerunSites, max_case_studies \in 1..MAX_CASE_STUDY_PAGES :
       \E hresp \in {Http(200, <<DomRich>>), Http(200, <<DomMany>>)} :
       \E down \in {{}, {"case_study"}, {"metadata.json"}} :
       \E cresp \in [1..Len(crawl_study_urls(websites[i], hresp.text, max_case_studies,
                                             MAX_INTERNAL_PAGES)) -> CaseResponses] :
          LET d == get_domain(websites[i])
              in == [hresp |-> hresp, cresp |-> cresp, down |-> down,
                     max_case_studies |-> max_case_studies]
              out == crawl_website(websites[i], raw[d], run, max_case_studies,
                                   MAX_INTERNAL_PAGES, in)
          IN  /\ raw' = [raw EXCEPT ![d] = out.rawd]
              /\ io' = [io EXCEPT ![i] = [hresp |-> hresp, requests |-> out.requests]]
              /\ call' = [stage |-> "crawl_website", site |-> i, in |-> in,
                          raised |-> out.raised, result |-> out.result, times |-> 1]
    /\ UNCHANGED <<processed, summary, fsDown, run, lst, st, tries, agg, aggTries,
                   res, aggRes, config, cleaning, page, rate, alone>>

FetchNext == crawler_main

FetchSpec == FetchInit /\ [][FetchNext]_vars

(* ---------------- navbar and footer extraction on their own ----------- *)
\* extract_section_from_html called on a homepage whose nav and footer
\* elements, and the elements matching the class/id patterns, are each absent,
\* present without text, or present with a text.
Elements(text) == {NoFile, File(<<>>), File(<<text>>)}

NavDoms ==
    {[links |-> <<>>,
      main |-> <<>>, body |-> << <<"b">> >>, blocks |-> <<>>,
      nav |-> nav, navPat |-> <<pat1, pat2>>,
      footer |-> footer, footerPat |-> footerPat,
      csMain |-> << <<"b">> >>, all |-> <<"b">>, size |-> 9] :
        nav \in Elements("n"), pat1 \in Elements("p"), pat2 \in Elements("q"),
        footer \in Elements("f"), footerPat \in Elements("g")}

SectionInit ==
    /\ PipelineIdle
    /\ cleaning = NoCleaning
    /\ page = NoPage
    /\ rate = NoRate
    /\ call = NoCall
    /\ alone = NoAlone

extract_section ==
    /\ call.stage = "none"
    /\ \E dom \in NavDoms, section_type \in {"navbar", "footer"} :
          call' = [stage |-> "extract_section_from_html", site |-> 0,
                   in |-> [html |-> <<dom>>, section_type |-> section_type],
                   raised |-> FALSE,
                   result |-> extract_section_from_html(<<dom>>, section_type),
                   times |-> 1]
    /\ UNCHANGED <<raw, processed, summary, fsDown, run, lst, st, tries, agg, aggTries,
                   res, aggRes, io, config, cleaning, page, rate, alone>>

SectionNext == extract_section

SectionSpec == SectionInit /\ [][SectionNext]_vars

(* -------------------- the storage key of a site ----------------------- *)
\* transform_to_standard run for every site of a list of one or two absolute
\* URLs, on the raw directory a crawl and an extraction of the site left,
\* then compute_and_save_metrics run on the same list.
UrlQuery == <<"https:", "//", "b.com", "?", "x">>
UrlSlashes == <<"https:", "//", "c.com", "/", "p", "//", "q">>
KeyUrls == {UrlA, UrlADir, UrlB, UrlQuery, UrlSlashes}
KeyNames == {get_domain(u) : u \in KeyUrls} \cup {simplified_domain(u) : u \in KeyUrls}
KeySections ==
    {SectionMap(Text(3), Text(1), <<>>, <<>>), SectionMap(Text(2), <<>>, <<>>, Text(1))}

KeyInit ==
    /\ config \in UNION {[1..n -> KeyUrls] : n \in Pair}
    /\ \E sections \in KeySections :
          raw = [d \in {get_domain(u) : u \in KeyUrls} |->
                    IF \E n \in 1..Len(config) : get_domain(config[n]) = d
                    THEN RawWith(config[CHOOSE n \in 1..Len(config) :
                                            get_domain(config[n]) = d], sections)
                    ELSE NoDir]
    /\ processed = [d \in KeyNames |-> NoFile]
    /\ summary = NoFile
    /\ fsDown = {}
    /\ run = 1
    /\ lst = "success"
    /\ st = [k \in StageNums |-> [n \in Pair |-> IF k < 3 THEN "success" ELSE "none"]]
    /\ tries = [k \in StageNums |-> [n \in Pair |-> 0]]
    /\ agg = "none"
    /\ aggTries = 0
    /\ res = [k \in StageNums |-> [n \in Pair |-> NoResult]]
    /\ aggRes = NoResult
    /\ io = [n \in Pair |-> NoIo]
    /\ cleaning = NoCleaning
    /\ page = NoPage
    /\ rate = NoRate
    /\ call = NoCall
    /\ alone = NoAlone

key_transform(n) ==
    /\ n <= Len(config)
    /\ st[3][n] = "none"
    /\ LET d == get_domain(config[n])
           out == transform_to_standard(config[n], raw[d], processed[d], run, {})
       IN  /\ processed' = [processed EXCEPT ![d] = out.file]
           /\ res' = [res EXCEPT ![3][n] = out.result]
           /\ st' = [st EXCEPT ![3][n] = "success"]
    /\ UNCHANGED <<raw, summary, fsDown, run, lst, tries, agg, aggTries, aggRes, io,
                   standalone>>

key_aggregate ==
    /\ \A n \in 1..Len(config) : st[3][n] = "success"
    /\ aggRes = NoResult
    /\ LET out == compute_and_save_metrics(config, processed, summary, run, {})
       IN  /\ summary' = out.file
           /\ aggRes' = out.result
    /\ UNCHANGED <<raw, processed, fsDown, run, lst, st, tries, agg, aggTries, res, io,
                   standalone>>

KeyNext ==
    \/ \E n \in Pair : key_transform(n)
    \/ key_aggregate

KeySpec == KeyInit /\ [][KeyNext]_vars

(* ------------------------------ the claims ---------------------------- *)
DomainOf(i) == get_domain(websites[i])
Returned(r) == r.status \notin {"none", "raised"}
\* the last crawl of site i in this run issued its homepage request, and the
\* server answered with a status other than 200
HomepageNon200(i) ==
    io[i].requests # <<>> /\ ~io[i].hresp.err /\ io[i].hresp.status # 200
\* the last crawl of site i in this run issued its homepage request, and the
\* request raised
HomepageTransportError(i) == io[i].requests # <<>> /\ io[i].hresp.err
\* no file-system call fails
NoFault == fsDown = {}

\* C1 (as claimed): once crawl, extract and transform have run for a site whose
\* homepage answered non-200 in this run, the site's homepage section is the
\* empty string and every Record of the site has isActive = FALSE, whatever
\* earlier runs left behind (stated for the runs in which no file-system call
\* fails).
C1_Original ==
    \A i \in Sites :
        (NoFault /\ HomepageNon200(i) /\ \A k \in StageNums : st[k][i] = "success")
        => /\ IsFile(raw[DomainOf(i)].extracted)
           /\ LET sections == raw[DomainOf(i)].extracted[1].sections
              IN  HasSection(sections, "homepage")
                  /\ SectionText(sections, "homepage") = <<>>
           /\ IsFile(processed[DomainOf(i)]) =>
                 \A n \in 1..Len(processed[DomainOf(i)][1]) :
                     ~processed[DomainOf(i)][1][n].isActive

\* C2 (as claimed): the Summary of a run counts no Record of a site whose
\* crawl returned failed or one of whose stages returned skipped in that run:
\* it is the Summary of the remaining sites (stated for the runs in which no
\* file-system call fails).
FailedOrSkipped(i) ==
    \/ res[1][i].status = "failed"
    \/ \E k \in StageNums : res[k][i].status = "skipped"

C2_Original ==
    (NoFault /\ aggRes.status = "success") =>
        aggRes.metrics_summary =
            compute_metrics(SelectSeq(websites,
                                LAMBDA u : \A i \in Sites :
                                               websites[i] = u => ~FailedOrSkipped(i)),
                            processed, run)

\* C3 (as claimed): after a crawl that returned success, the case-study keys of
\* the metadata document and the case-study files are case_study_01 ..
\* case_study_k with k = case_studies_found: no gaps (stated for the runs in
\* which no file-system call fails).
C3_Original ==
    \A i \in Sites :
        (NoFault /\ res[1][i].status = "success") =>
            LET k == res[1][i].case_studies_found
                rawd == raw[DomainOf(i)]
            IN  /\ DOMAIN rawd.metadata[1].pages = {"homepage"} \cup {CaseKey(j) : j \in 1..k}
                /\ \A j \in 1..k : IsFile(rawd.cases[j])

\* C4 (as claimed): when the homepage answers non-200, crawl_website returns
\* partial with reason homepage_<status>, the homepage body file exists, the
\* persisted metadata document holds the homepage entry (url, status, size,
\* timestamp) of this crawl, and the homepage request is the only request
\* (stated for the runs in which no file-system call fails).
C4_Original ==
    \A i \in Sites :
        (NoFault /\ HomepageNon200(i)) =>
            LET rawd == raw[DomainOf(i)]
            IN  /\ res[1][i].status = "partial"
                /\ res[1][i].reason = "homepage_" \o ToString(io[i].hresp.status)
                /\ IsFile(rawd.homepage)
                /\ IsFile(rawd.metadata)
                /\ rawd.metadata[1].pages["homepage"] =
                       [url |-> websites[i], status |-> io[i].hresp.status,
                        size_bytes |-> 0, timestamp |-> run]
                /\ io[i].requests = <<websites[i]>>

\* C5: when the homepage request raises (connection failure or timeout),
\* crawl_website returns failed with reason homepage_fetch_error, the metadata
\* it returns has pages = {homepage: {status: 0, error}}, and the homepage
\* request is the only request of that crawl.
C5_TransportErrorFails ==
    \A i \in Sites :
        HomepageTransportError(i) =>
            /\ res[1][i].status = "failed"
            /\ res[1][i].reason = "homepage_fetch_error"
            /\ DOMAIN res[1][i].metadata.pages = {"homepage"}
            /\ res[1][i].metadata.pages["homepage"].status = 0
            /\ "error" \in DOMAIN res[1][i].metadata.pages["homepage"]
            /\ io[i].requests = <<websites[i]>>

C5_Witness ==
    \E i \in Sites : HomepageTransportError(i) /\ res[1][i].status = "failed"

\* C6 (as claimed): in every run aggregate_all is invoked exactly once: never
\* twice, only once every transform instance is finished, and it has been
\* invoked when the run is over.
C6_Original ==
    /\ aggTries <= 1
    /\ aggTries >= 1 => UpstreamDone(st[3])
    /\ RunOver => aggTries = 1

\* C7 (as claimed): when a run is over, every site none of whose own stage
\* calls raised has had its crawl, extract and transform invoked, whatever
\* happened to the other sites.
C7_Original ==
    RunOver =>
        \A i \in Sites :
            (\A k \in StageNums : res[k][i].status # "raised")
            => \A k \in StageNums : tries[k][i] >= 1 /\ st[k][i] = "success"

\* C8 (as claimed): every stage entry point returns a result whose status is
\* success, partial, failed or skipped, with a reason when it is not success,
\* and never raises.
Tagged(r) ==
    \/ r.status = "none"
    \/ r.status = "success"
    \/ r.status \in {"partial", "failed", "skipped"} /\ "reason" \in DOMAIN r

C8_Original ==
    /\ \A k \in StageNums, i \in Sites : Tagged(res[k][i])
    /\ Tagged(aggRes)

\* C9 (as claimed): extract_and_tag returns skipped and leaves no extracted
\* artifact when the site has no homepage body; transform_to_standard returns
\* skipped when the SectionMap or the CrawlMetadata is missing (stated for the
\* runs in which no file-system call fails).
C9_Original ==
    \A i \in Sites :
        /\ (NoFault /\ Returned(res[2][i]) /\ ~IsFile(raw[DomainOf(i)].homepage))
           => res[2][i].status = "skipped" /\ ~IsFile(raw[DomainOf(i)].extracted)
        /\ (Returned(res[3][i]) /\ ~(IsFile(raw[DomainOf(i)].extracted)
                                     /\ IsFile(raw[DomainOf(i)].metadata)))
           => res[3][i].status = "skipped"

\* C10: every Record transform_to_standard wrote for a site in this run has
\* the same isActive, which is TRUE exactly when the homepage status of the
\* site's metadata document is 200 and some section of its SectionMap is not
\* empty.
C10_IsActive ==
    \A i \in Sites :
        res[3][i].status = "success" =>
            LET rawd == raw[DomainOf(i)]
                records == processed[DomainOf(i)][1]
                sections == rawd.extracted[1].sections
                ok == /\ "homepage" \in DOMAIN rawd.metadata[1].pages
                      /\ rawd.metadata[1].pages["homepage"].status = 200
                      /\ \E n \in 1..Len(sections) : sections[n].content # <<>>
            IN  \A n \in 1..Len(records) : records[n].isActive = ok

\* a site with a 200 homepage whose sections are all empty, and one with content
C10_Witness ==
    /\ \E i \in Sites :
          /\ res[3][i].status = "success"
          /\ processed[DomainOf(i)][1] # <<>>
          /\ ~processed[DomainOf(i)][1][1].isActive
          /\ io[i].hresp.status = 200
    /\ \E i \in Sites :
          /\ res[3][i].status = "success"
          /\ processed[DomainOf(i)][1] # <<>>
          /\ processed[DomainOf(i)][1][1].isActive


\* C11: when transform_to_standard returned success for a site in this run,
\* the site's Record file holds exactly one Record per key of the site's
\* SectionMap, keys with empty content included: records_count and the number
\* of Records equal the number of keys, and every key has exactly one Record.
C11_OneRecordPerSection ==
    \A i \in Sites :
        res[3][i].status = "success" =>
            LET records == processed[DomainOf(i)][1]
                sections == raw[DomainOf(i)].extracted[1].sections
            IN  /\ res[3][i].records_count = Len(sections)
                /\ Len(records) = Len(sections)
                /\ \A k \in 1..Len(sections) :
                       Cardinality({n \in 1..Len(records) :
                                       records[n].section = sections[k].section}) = 1
                /\ {records[n].section : n \in 1..Len(records)} = Range(SectionKeys(sections))

\* a transform that succeeded on a SectionMap with an empty section and a
\* non-empty one
C11_Witness ==
    \E i \in Sites :
        /\ res[3][i].status = "success"
        /\ \E n \in 1..Len(processed[DomainOf(i)][1]) :
              processed[DomainOf(i)][1][n].content = <<>>
        /\ \E n \in 1..Len(processed[DomainOf(i)][1]) :
              processed[DomainOf(i)][1][n].content # <<>>

(* claims about the aggregator, under AggSpec *)
\* the Record file the aggregator reads for url holds at least one Record
HasRecords(url) ==
    IsFile(processed[simplified_domain(url)]) /\ processed[simplified_domain(url)][1] # <<>>
\* the Record file read for url holds a case_study Record that is not empty
HasCaseStudy(url) ==
    /\ HasRecords(url)
    /\ \E n \in 1..Len(processed[simplified_domain(url)][1]) :
          /\ processed[simplified_domain(url)][1][n].section = "case_study"
          /\ processed[simplified_domain(url)][1][n].content # <<>>
RepeatedUrl == \E i, j \in 1..Len(config) : i # j /\ config[i] = config[j]
SharedDomain ==
    \E i, j \in 1..Len(config) :
        config[i] # config[j] /\ simplified_domain(config[i]) = simplified_domain(config[j])

\* C12: in every Summary compute_and_save_metrics writes, active_websites +
\* inactive_websites = total_websites_processed, and total_websites_processed
\* is the number of configured sites (distinct URLs of the list) whose Record
\* file holds at least one Record; site lists with repeated URLs and Record
\* files holding the empty list included.
C12_CountsAddUp ==
    aggRes.status = "success" =>
        /\ summary = File(aggRes.metrics_summary)
        /\ summary[1].active_websites + summary[1].inactive_websites
               = summary[1].total_websites_processed
        /\ summary[1].total_websites_processed
               = Cardinality({u \in Range(config) : HasRecords(u)})

\* a Summary of a list with a repeated URL and a site whose file is []
C12_Witness ==
    /\ aggRes.status = "success"
    /\ RepeatedUrl
    /\ \E u \in Range(config) : processed[simplified_domain(u)] = File(<<>>)

\* C13 (as claimed): in every Summary num_websites_with_case_studies is at
\* most total_websites_processed, for any configured site list, lists with a
\* repeated URL included.
C13_Original ==
    aggRes.status = "success" =>
        summary[1].num_websites_with_case_studies <= summary[1].total_websites_processed

\* C13 (amended): in every Summary of a site list in which no URL appears more
\* than once, num_websites_with_case_studies is the number of sites with a
\* non-empty case_study Record, and so at most total_websites_processed; two
\* URLs of the list may share a domain.
C13_NoRepeatedUrl ==
    (aggRes.status = "success" /\ ~RepeatedUrl) =>
        /\ summary[1].num_websites_with_case_studies
               = Cardinality({u \in Range(config) : HasCaseStudy(u)})
        /\ summary[1].num_websites_with_case_studies
               <= summary[1].total_websites_processed

\* a Summary of two URLs of one domain and a site without case study
C13_Witness ==
    /\ aggRes.status = "success"
    /\ ~RepeatedUrl
    /\ SharedDomain
    /\ summary[1].num_websites_with_case_studies >= 2
    /\ summary[1].num_websites_with_case_studies < summary[1].total_websites_processed

\* C14: when no configured site has a persisted Record, the call returns
\* skipped with reason no_data and leaves the summary artifact as it was:
\* absent if it was absent, unchanged if an earlier run left one.
C14_NoDataSkips ==
    [][(aggRes = NoResult /\ aggRes' # NoResult
           /\ \A u \in Range(config) : ~HasRecords(u))
       => (/\ aggRes'.status = "skipped"
           /\ aggRes'.reason = "no_data"
           /\ summary' = summary)]_vars

\* the call skipped and the summary of an earlier run is still there
C14_Witness ==
    /\ aggRes.status = "skipped"
    /\ summary = OldSummary
    /\ config # <<>>

\* the Records with non-empty content of a section, as <<i, n>>: the n-th
\* Record of the file of the i-th configured site
SectionNames == {"homepage", "navbar", "footer", "case_study"}
Filled(section) ==
    {p \in (1..Len(config)) \X (1..Cardinality(SectionNames)) :
        /\ HasRecords(config[p[1]])
        /\ p[2] <= Len(processed[simplified_domain(config[p[1]])][1])
        /\ processed[simplified_domain(config[p[1]])][1][p[2]].section = section
        /\ processed[simplified_domain(config[p[1]])][1][p[2]].content # <<>>}
LengthOf(p) == Len(processed[simplified_domain(config[p[1]])][1][p[2]].content)

RECURSIVE TotalLength(_)
TotalLength(S) ==
    IF S = {} THEN 0
    ELSE LET p == CHOOSE p \in S : TRUE IN LengthOf(p) + TotalLength(S \ {p})

\* avg (in hundredths) is the mean of count lengths of sum total
ExactMean(avg, total, count) == avg * count = 100 * total
\* avg (in hundredths) is that mean rounded to two decimal places
RoundedMean(avg, total, count) ==
    /\ 2 * (avg * count - 100 * total) <= count
    /\ 2 * (100 * total - avg * count) <= count

StatsHold(Mean(_, _, _)) ==
    aggRes.status = "success" =>
        LET stats == summary[1].content_length_stats
        IN  /\ DOMAIN stats \subseteq SectionNames
            /\ \A s \in SectionNames :
                  IF Filled(s) = {} THEN s \notin DOMAIN stats
                  ELSE /\ s \in DOMAIN stats
                       /\ stats[s].count = Cardinality(Filled(s))
                       /\ stats[s].min = MinOf({LengthOf(p) : p \in Filled(s)})
                       /\ stats[s].max = MaxOf({LengthOf(p) : p \in Filled(s)})
                       /\ Mean(stats[s].avg, TotalLength(Filled(s)),
                               Cardinality(Filled(s)))

\* C15 (as claimed): content_length_stats[section] has count, min and max of
\* the Records of the section with non-empty content over all sites, and avg
\* equal to the mean of their lengths; a section without such a Record has no
\* entry (stated for the site lists whose entries have different domains).
C15_Original == (~RepeatedUrl /\ ~SharedDomain) => StatsHold(ExactMean)

\* C15 (amended): the same over the Record files of all entries of the site
\* list, with avg equal to the mean of the lengths rounded to two decimal
\* places.
C15_RoundedMean == StatsHold(RoundedMean)

\* homepage lengths 100, 200, 300 give min 100, max 300, avg 200.00, count 3;
\* case-study lengths 2, 3, 3 give avg 2.67
C15_Witness ==
    /\ aggRes.status = "success"
    /\ "homepage" \in DOMAIN summary[1].content_length_stats
    /\ summary[1].content_length_stats["homepage"]
           = [min |-> 100, max |-> 300, avg |-> 20000, count |-> 3]
    /\ "case_study" \in DOMAIN summary[1].content_length_stats
    /\ summary[1].content_length_stats["case_study"].avg = 267
    /\ "navbar" \in DOMAIN summary[1].content_length_stats
    /\ summary[1].content_length_stats["navbar"].count = 2

(* claims about clean_text, under TextSpec *)
NoWhitespaceRun(t) ==
    \A k \in 1..(Len(t) - 1) : ~(t[k] \in Whitespace /\ t[k + 1] \in Whitespace)
NoZeroWidth(t) == \A k \in 1..Len(t) : t[k] \notin ZeroWidth

\* C16 (as claimed): for every text of ordinary, whitespace and zero-width
\* characters, clean_text(t) holds no run of more than one whitespace
\* character and no zero-width character, and cleaning it again changes
\* nothing: clean_text(clean_text(t)) = clean_text(t).
C16_Original ==
    /\ cleaning.times >= 1 =>
           NoWhitespaceRun(cleaning.output) /\ NoZeroWidth(cleaning.output)
    /\ cleaning.times = 2 => cleaning.output = cleaning.input

(* claims about the link classification, under LinkSpec *)
\* the resolved URL of the n-th link of the page
Resolved(n) == urljoin(page.url, Strip(page.links[n]))
\* the n-th link passes the tests made before the keyword test
Followed(n) ==
    /\ IsHttpUrl(Resolved(n))
    /\ "#" \notin Range(page.links[n])
    /\ "javascript:" \notin Range(LowerSeq(page.links[n]))
InternalPrefix(n) == StartsWith(Resolved(n), page.url) /\ Resolved(n) # page.url

\* C17: a link whose lowercased href holds a case-study keyword is never in
\* the internal-candidates list, also when its resolved URL starts with the
\* base URL and differs from it.
C17_KeywordNeverInternal ==
    page.classified =>
        \A n \in 1..Len(page.links) :
            IsCaseStudyHref(LowerSeq(page.links[n]))
            => Resolved(n) \notin Range(page.internal)

\* a keyword link (in upper case too) under the base URL, next to an internal
\* candidate
C17_Witness ==
    /\ page.classified
    /\ page.internal # <<>>
    /\ \E n \in 1..Len(page.links) :
          /\ page.links[n] = HrefCaseUpper
          /\ Followed(n) /\ InternalPrefix(n)
          /\ Resolved(n) \in Range(page.case)

NoRepeat(s) == \A i, j \in 1..Len(s) : s[i] = s[j] => i = j
\* s holds elements of the sequence all, in the order of all
RECURSIVE InOrderOf(_, _)
InOrderOf(s, all) ==
    IF s = <<>> THEN TRUE
    ELSE IF all = <<>> THEN FALSE
    ELSE IF s[1] = all[1] THEN InOrderOf(Tail(s), Tail(all))
    ELSE InOrderOf(s, Tail(all))

\* C18 (as claimed): after the classification neither candidate list holds a
\* resolved URL twice, each list is in document order, and the internal list
\* has at most max_internal entries.
C18_Original ==
    page.classified =>
        LET all == [n \in 1..Len(page.links) |-> Resolved(n)]
        IN  /\ NoRepeat(page.case)
            /\ NoRepeat(page.internal)
            /\ InOrderOf(page.case, all)
            /\ InOrderOf(page.internal, all)
            /\ Len(page.internal) <= page.max_internal

(* claims about the rate limiter, under RateSpec *)
\* C19 (as claimed): however many worker processes crawl at the same time,
\* the requests issued through rate_limited_request within a window of 60
\* seconds are at most 60 in total.
C19_Original == SentInWindow <= RATE_CALLS

(* claims about re-execution, under RerunSpec *)
\* this step calls again the stage the call before it called, for the same
\* site with the same inputs, on the disk that call left
SameCallAgain ==
    /\ call.stage # "none"
    /\ call'.stage = call.stage
    /\ call'.site = call.site
    /\ call'.in = call.in

\* C20: a stage (crawl, extract, transform, aggregate) called a second time in
\* succession for the same site with the same fetch responses, the same
\* upstream artifacts and the same execution date leaves on disk exactly the
\* artifacts the first call left and returns the result the first call
\* returned.
C20_RerunIdempotent ==
    [][SameCallAgain =>
          /\ raw' = raw
          /\ processed' = processed
          /\ summary' = summary
          /\ call'.result = call.result
          /\ call'.raised = call.raised]_vars

\* a transform called a second time in succession that wrote the Records of a
\* site whose crawl found a case study
C20_Witness ==
    /\ call.stage = "transform_to_standard"
    /\ call.times = 2
    /\ call.result.status = "success"
    /\ call.result.records_count > 0
    /\ \E d \in Domains : IsFile(processed[d]) /\ Len(processed[d][1]) > 0

(* claims about what a crawl leaves on disk, under Spec *)
\* the body crawl_website writes to homepage.html for a response
HomepageBody(hresp) == File(IF hresp.status = 200 THEN hresp.text ELSE EmptyHtml)

\* the raw directory holds nothing but what a crawl stamped with the
\* execution date of this run, answered hresp on its homepage request, wrote
OnlyThisCrawl(rawd, hresp) ==
    /\ IsFile(rawd.homepage) => ~hresp.err /\ rawd.homepage = HomepageBody(hresp)
    /\ IsFile(rawd.metadata) => rawd.metadata[1].crawl_timestamp = run
    /\ \A n \in CaseNums :
          IsFile(rawd.cases[n]) =>
              /\ IsFile(rawd.metadata)
              /\ CaseKey(n) \in DOMAIN rawd.metadata[1].pages
              /\ rawd.metadata[1].pages[CaseKey(n)].timestamp = run

\* C21 (as claimed): after a crawl of a site, whatever it returned, the site's
\* raw directory holds only what that crawl wrote: its homepage body, its
\* case-study bodies, its metadata document; no case-study file and no
\* metadata document of an earlier crawl remains (stated for the runs in
\* which no file-system call fails).
C21_Original ==
    \A i \in Sites :
        (NoFault /\ Returned(res[1][i])) => OnlyThisCrawl(raw[DomainOf(i)], io[i].hresp)

(* claims about two sites, under InterleaveSpec *)
\* the artifacts on disk for site n are those it has when only its own
\* stages run
AsAlone(n) ==
    LET d == get_domain(config[n])
    IN  /\ st[1][n] = "success" => raw[d] = alone[n].rawd
        /\ st[3][n] = "success" => processed[d] = alone[n].file

\* C22 (as claimed): for any two distinct configured sites whose stages run
\* interleaved in any order, the raw pages, metadata, SectionMap and Record
\* list of each site are what they are when the other site's stages do not
\* run.
C22_Original == \A n \in Pair : AsAlone(n)

\* C22 (amended): for any two configured sites whose URLs have different
\* network locations, the raw pages, metadata, SectionMap and Record list of
\* each site are what they are when the other site's stages do not run.
C22_DistinctDomains ==
    Netloc(config[1]) # Netloc(config[2]) => \A n \in Pair : AsAlone(n)

\* two sites of different network locations, all stages of both run, both with
\* Records on disk, one of them with case-study pages saved
C22_Witness ==
    /\ Netloc(config[1]) # Netloc(config[2])
    /\ \A n \in Pair :
          /\ st[3][n] = "success"
          /\ IsFile(processed[get_domain(config[n])])
          /\ processed[get_domain(config[n])][1] # <<>>
    /\ \E n \in Pair : IsFile(raw[get_domain(config[n])].cases[1])

(* claims about the case-study fetches, under FetchSpec *)
\* the n-th case-study request was answered 200
Answered200(n) == ~call.in.cresp[n].err /\ call.in.cresp[n].status = 200

\* C23: after a 200 homepage crawl_website requests the first
\* max_case_studies candidates and no other, in candidate order; a request
\* that raises or is answered non-200 is skipped and the candidates after it
\* are still requested; when the metadata document can be written the crawl
\* returns success with case_studies_found the number of pages it saved.
C23_CaseStudyFetches ==
    call.stage = "crawl_website" =>
        LET i == call.site
            all == case_study_candidates(websites[i], call.in.hresp.text, MAX_INTERNAL_PAGES)
            k == IF Len(all) < call.in.max_case_studies
                 THEN Len(all) ELSE call.in.max_case_studies
            saved == {n \in CaseNums : IsFile(raw[DomainOf(i)].cases[n])}
        IN  /\ io[i].requests = <<websites[i]>> \o SubSeq(all, 1, k)
            /\ Len(io[i].requests) - 1 <= call.in.max_case_studies
            /\ "case_study" \notin call.in.down =>
                   saved = {n \in 1..k : Answered200(n)}
            /\ "metadata.json" \notin call.in.down =>
                   /\ call.result.status = "success"
                   /\ call.result.case_studies_found = Cardinality(saved)

\* four candidates and a cap of three: the first request raised, the second
\* was answered 404, the third was answered 200 and saved
C23_Witness ==
    /\ call.stage = "crawl_website"
    /\ call.in.hresp.text = <<DomMany>>
    /\ call.in.max_case_studies = MAX_CASE_STUDY_PAGES
    /\ call.in.down = {}
    /\ Len(io[call.site].requests) = 1 + MAX_CASE_STUDY_PAGES
    /\ call.in.cresp[1].err
    /\ call.in.cresp[2].status = 404
    /\ Answered200(3)
    /\ IsFile(raw[DomainOf(call.site)].cases[3])
    /\ call.result.status = "success"
    /\ call.result.case_studies_found = 1

(* claims about the extracted sections, under Spec *)
\* the non-empty extracted texts of the case-study pages the metadata
\* document of the crawl lists, in ascending page number
SavedCaseTexts(rawd) ==
    LET texts == [n \in CaseNums |->
                     IF CaseKey(n) \in DOMAIN rawd.metadata[1].pages /\ IsFile(rawd.cases[n])
                     THEN extract_section_from_html(rawd.cases[n][1], "case_study")
                     ELSE <<>>]
    IN  SelectSeq(texts, LAMBDA t : t # <<>>)

\* C24 (as claimed): after a crawl and an extraction that returned success in
\* this run, the case_study section is the single-space join, in ascending
\* page number, of the non-empty extracted texts of every case-study page the
\* crawl saved, and there is no case_study section when there is no such text
\* (stated for the runs in which no file-system call fails).
C24_Original ==
    \A i \in Sites :
        (NoFault /\ res[1][i].status = "success" /\ res[2][i].status = "success") =>
            LET rawd == raw[DomainOf(i)]
                sections == rawd.extracted[1].sections
                texts == SavedCaseTexts(rawd)
            IN  IF texts = <<>> THEN ~HasSection(sections, "case_study")
                ELSE /\ HasSection(sections, "case_study")
                     /\ SectionText(sections, "case_study") = JoinSp(texts)

\* C25: in the SectionMap extract_and_tag wrote, the keys navbar and footer
\* are both present when the homepage section is present with a non-empty
\* text, and both absent otherwise: when the homepage text is empty or
\* homepage.html is missing.
C25_NavbarFooterKeys ==
    \A i \in Sites :
        res[2][i].status = "success" =>
            LET sections == raw[DomainOf(i)].extracted[1].sections
                filled == /\ HasSection(sections, "homepage")
                          /\ SectionText(sections, "homepage") # <<>>
            IN  /\ HasSection(sections, "navbar") <=> filled
                /\ HasSection(sections, "footer") <=> filled

\* one site extracted from a homepage body whose text is empty, without the
\* two keys, and one extracted from a homepage with text, with the two keys
C25_Witness ==
    /\ \E i \in Sites :
          /\ res[2][i].status = "success"
          /\ IsFile(raw[DomainOf(i)].homepage)
          /\ raw[DomainOf(i)].homepage[1] # EmptyHtml
          /\ LET sections == raw[DomainOf(i)].extracted[1].sections
             IN  /\ HasSection(sections, "homepage")
                 /\ SectionText(sections, "homepage") = <<>>
                 /\ ~HasSection(sections, "navbar")
    /\ \E i \in Sites :
          /\ res[2][i].status = "success"
          /\ LET sections == raw[DomainOf(i)].extracted[1].sections
             IN  /\ HasSection(sections, "navbar")
                 /\ HasSection(sections, "footer")

(* claims about the navbar and footer heuristics, under SectionSpec *)
\* the text of an element, the empty string when the element is absent
TextOf(element) == IF IsFile(element) THEN element[1] ELSE <<>>

\* the first of the texts that is not empty, the empty string when all are
RECURSIVE FirstText(_)
FirstText(texts) ==
    IF texts = <<>> THEN <<>>
    ELSE IF texts[1] # <<>> THEN texts[1] ELSE FirstText(Tail(texts))

\* C26 (as claimed): the navbar is the text of the first step that yields a
\* text among the nav element, the first pattern group and the second pattern
\* group; the footer is the text of the first step that yields a text among
\* the footer element and the footer pattern; each is the empty string only
\* when every step yields no text.
C26_Original ==
    call.stage = "extract_section_from_html" =>
        LET dom == call.in.html[1]
        IN  call.result =
                clean_text(IF call.in.section_type = "navbar"
                           THEN FirstText(<<TextOf(dom.nav), TextOf(dom.navPat[1]),
                                            TextOf(dom.navPat[2])>>)
                           ELSE FirstText(<<TextOf(dom.footer), TextOf(dom.footerPat)>>))

(* claims about the storage key, under KeySpec *)
\* C27 (as claimed): for every configured URL the name under which
\* compute_and_save_metrics looks for the Record list is the name get_domain
\* gives, under which transform_to_standard wrote it; so once every site has
\* its Record list written, the aggregation counts every configured URL.
C27_Original ==
    aggRes # NoResult =>
        /\ \A n \in 1..Len(config) : simplified_domain(config[n]) = get_domain(config[n])
        /\ aggRes.status = "success"
        /\ aggRes.metrics_summary.total_websites_processed = Cardinality(Range(config))

====
